---- MODULE Spec2Model ----
(***************************************************************************)
(* Model of fienup_phase_retrieval (classics.py).                          *)
(*                                                                         *)
(* Arrays live in a heap, and the locals x, x_p, y, mask and init_phi are  *)
(* references into it, so that Python's name binding (x = y, x_p = x) and  *)
(* the in-place write x[indices] = ... keep their aliasing.                *)
(*                                                                         *)
(* Numbers: the arrays have at most two entries per axis, where the        *)
(* discrete Fourier transform has the twiddle factors +1 and -1 only, and  *)
(* phases are multiples of pi, where exp(1j*phi) is +1 or -1.  Magnitudes  *)
(* are multiples of the number of pixels, so the division of the inverse   *)
(* transform is exact.  Every value the code computes on these inputs is   *)
(* an integer, which float64 represents exactly.                           *)
(***************************************************************************)
EXTENDS Integers, Sequences, FiniteSets, TLC

\* bounds of the inputs
MaxSteps == 2
MaxMag == 1
MaxBeta == 2
MaxThreshhold == 1

None == "None"
Unbound == <<>>

Modes == {"input-output", "output-output", "hybrid", "gs"}
ModeArgs == Modes \cup {"error-reduction"}

\* mag.shape of the calls; every axis has length 1 or 2
Shape == <<1, 2>>

Pix(shape) == (0 .. shape[1] - 1) \X (0 .. shape[2] - 1)
Size(shape) == shape[1] * shape[2]
Arr(shape, f) == [shape |-> shape, data |-> f]
Full(shape, v) == Arr(shape, [p \in Pix(shape) |-> v])

RECURSIVE SumOver(_, _)
SumOver(S, f) ==
    IF S = {} THEN 0
    ELSE LET p == CHOOSE q \in S : TRUE
         IN  f[p] + SumOver(S \ {p}, f)

\* numpy broadcasting of two 2-d shapes
Broadcastable(s, t) ==
    \A d \in 1 .. 2 : s[d] = t[d] \/ s[d] = 1 \/ t[d] = 1
Max(a, b) == IF a >= b THEN a ELSE b
BroadcastShape(s, t) == <<Max(s[1], t[1]), Max(s[2], t[2])>>
At(a, p) ==
    a.data[<<IF a.shape[1] = 1 THEN 0 ELSE p[1],
             IF a.shape[2] = 1 THEN 0 ELSE p[2]>>]

\* complex numbers are pairs <<re, im>>; phases are counted in units of pi
exp1j(k) == <<IF k % 2 = 0 THEN 1 ELSE -1, 0>>
real(z) == z[1]
abs(z) == IF z[1] < 0 THEN -z[1] ELSE z[1]
angle(z) == IF z[1] < 0 THEN 1 ELSE 0
Scale(m, z) == <<m * z[1], m * z[2]>>

\* exp(-2 pi 1j k m / n) for an axis of length n <= 2
Twiddle(k, m) == IF (k * m) % 2 = 0 THEN 1 ELSE -1

DftSum(a, k, part) ==
    SumOver(Pix(a.shape),
            [m \in Pix(a.shape) |->
                a.data[m][part] * Twiddle(k[1], m[1]) * Twiddle(k[2], m[2])])

\* np.fft.fft2 of a real array
fft2(a) ==
    LET c == Arr(a.shape, [p \in Pix(a.shape) |-> <<a.data[p], 0>>])
    IN  Arr(a.shape, [k \in Pix(a.shape) |-> <<DftSum(c, k, 1), DftSum(c, k, 2)>>])

\* np.fft.ifft2 of a complex array
ifft2(a) ==
    Arr(a.shape, [k \in Pix(a.shape) |->
                    <<DftSum(a, k, 1) \div Size(a.shape),
                      DftSum(a, k, 2) \div Size(a.shape)>>])

\* mag * np.exp(1j * phi), with broadcasting
Polar(m, phi) ==
    LET s == BroadcastShape(m.shape, phi.shape)
    IN  Arr(s, [p \in Pix(s) |-> Scale(At(m, p), exp1j(At(phi, p)))])

\* Violations without the pixels outside the mask
Violations_InsideOnly(ya, th, ma) ==
    [p \in Pix(ya.shape) |-> ya.data[p] < th /\ ma.data[p] # 0]

\* np.logical_or(np.logical_and(y < threshhold, mask), np.logical_not(mask))
Violations(ya, th, ma) ==
    [p \in Pix(ya.shape) |->
        (ya.data[p] < th /\ ma.data[p] # 0) \/ ma.data[p] = 0]

\* np.sum(x[indices] ** 2)
SumSq(xa, ind) ==
    SumOver({p \in Pix(xa.shape) : ind[p]},
            [p \in Pix(xa.shape) |-> xa.data[p] * xa.data[p]])

\* np.mean((np.abs(x_hat) - mag) ** 2)
MagError(xh, m) ==
    SumOver(Pix(xh.shape),
            [p \in Pix(xh.shape) |->
                (abs(xh.data[p]) - m.data[p]) * (abs(xh.data[p]) - m.data[p])])
        \div Size(xh.shape)

\* the name of the array np.real(np.fft.ifft2(y_hat)) creates in iteration k
NewY(k) == "y" \o ToString(k)


(***************************************************************************)
(* State.  args holds the parameters of the call; mag, mask and init_phi   *)
(* in it name arrays of the caller (or are None).  ret is the returned     *)
(* pair, exc the exception the call ended with.  nTransforms counts the    *)
(* calls of ifft2 and fft2, rngCalls those of np.random.rand.  traj keeps  *)
(* the value of x at the end of each iteration; callNo and first belong to *)
(* the caller, who may repeat the call.                                    *)
(***************************************************************************)
VARIABLES heap, args, pc, mask, init_phi, y_hat, x, x_p, y, indices, x_hat,
          errors, i, ret, exc, nTransforms, rngCalls, traj, callNo, first

vars == <<heap, args, pc, mask, init_phi, y_hat, x, x_p, y, indices, x_hat,
          errors, i, ret, exc, nTransforms, rngCalls, traj, callNo, first>>

locals == <<mask, init_phi, y_hat, x, x_p, y, indices, x_hat, errors, i>>

CallerArrays == {"mag", "mask", "init_phi"}

PhaseUnits == {0, 1}
MagValues == {Size(Shape) * k : k \in 0 .. MaxMag}

MagArrays == {Arr(Shape, f) : f \in [Pix(Shape) -> MagValues]}
MaskArrays ==
    {Arr(Shape, f) : f \in [Pix(Shape) -> {0, 1}]} \cup {Full(<<2, 1>>, 1)}
PhiArrays ==
    {Arr(Shape, f) : f \in [Pix(Shape) -> PhaseUnits]}
        \cup {Full(<<1, 1>>, k) : k \in PhaseUnits}
        \cup {Full(<<1, 3>>, 0)}

Init ==
    /\ \E m \in MagArrays, ma \in MaskArrays, ph \in PhiArrays :
        heap = [n \in CallerArrays |->
                    CASE n = "mag" -> m [] n = "mask" -> ma [] OTHER -> ph]
    /\ args \in [mag : {"mag"},
                 init_phi : {None, "init_phi"},
                 mask : {None, "mask"},
                 threshhold : 0 .. MaxThreshhold,
                 beta : 0 .. MaxBeta,
                 steps : 0 .. MaxSteps,
                 mode : ModeArgs]
    \* an argument that is not passed has one value
    /\ args.mask = None => heap["mask"] = Full(Shape, 1)
    /\ args.init_phi = None => heap["init_phi"] = Full(Shape, 0)
    /\ pc = "start"
    /\ mask = None /\ init_phi = None /\ x = None /\ x_p = None /\ y = None
    /\ y_hat = Unbound /\ indices = Unbound /\ x_hat = Unbound
    /\ errors = <<>> /\ i = 0
    /\ ret = <<>> /\ exc = None
    /\ nTransforms = 0 /\ rngCalls = 0 /\ traj = <<>>
    /\ callNo = 1 /\ first = <<>>

Raise(e) ==
    /\ pc' = "raised"
    /\ exc' = e

\* CheckArgs with the assertion on steps left out
CheckArgs_StepsNotChecked ==
    /\ pc = "start"
    /\ IF ~(args.beta > 0) \/ args.mode \notin Modes
       THEN /\ Raise("AssertionError")
            /\ UNCHANGED <<heap, mask>>
       ELSE /\ IF args.mask = None
               THEN /\ heap' = ("ones" :> Full(heap[args.mag].shape, 1)) @@ heap
                    /\ mask' = "ones"
               ELSE /\ mask' = args.mask
                    /\ UNCHANGED heap
            /\ IF heap[args.mag].shape = heap'[mask'].shape
               THEN pc' = "sample" /\ UNCHANGED exc
               ELSE Raise("AssertionError")
    /\ UNCHANGED <<args, init_phi, y_hat, x, x_p, y, indices, x_hat, errors, i,
                   ret, nTransforms, rngCalls, traj, callNo, first>>

\* lines 39-48: the assertions and the default mask
CheckArgs ==
    /\ pc = "start"
    /\ IF ~(args.beta > 0) \/ ~(args.steps > 0) \/ args.mode \notin Modes
       THEN /\ Raise("AssertionError")
            /\ UNCHANGED <<heap, mask>>
       ELSE /\ IF args.mask = None
               THEN /\ heap' = ("ones" :> Full(heap[args.mag].shape, 1)) @@ heap
                    /\ mask' = "ones"
               ELSE /\ mask' = args.mask
                    /\ UNCHANGED heap
            /\ IF heap[args.mag].shape = heap'[mask'].shape
               THEN pc' = "sample" /\ UNCHANGED exc
               ELSE Raise("AssertionError")
    /\ UNCHANGED <<args, init_phi, y_hat, x, x_p, y, indices, x_hat, errors, i,
                   ret, nTransforms, rngCalls, traj, callNo, first>>

\* SamplePhase drawing a random phase although init_phi was passed
SamplePhase_Always ==
    /\ pc = "sample"
    /\ \E f \in [Pix(heap[args.mag].shape) -> PhaseUnits] :
            /\ heap' = ("rand" :> Arr(heap[args.mag].shape, f)) @@ heap
            /\ init_phi' = "rand"
            /\ rngCalls' = rngCalls + 1
    /\ pc' = "setup"
    /\ UNCHANGED <<args, mask, y_hat, x, x_p, y, indices, x_hat, errors, i,
                   ret, exc, nTransforms, traj, callNo, first>>

\* lines 51-52: the random initial phase
SamplePhase ==
    /\ pc = "sample"
    /\ IF args.init_phi = None
       THEN \E f \in [Pix(heap[args.mag].shape) -> PhaseUnits] :
                /\ heap' = ("rand" :> Arr(heap[args.mag].shape, f)) @@ heap
                /\ init_phi' = "rand"
                /\ rngCalls' = rngCalls + 1
       ELSE /\ init_phi' = args.init_phi
            /\ UNCHANGED <<heap, rngCalls>>
    /\ pc' = "setup"
    /\ UNCHANGED <<args, mask, y_hat, x, x_p, y, indices, x_hat, errors, i,
                   ret, exc, nTransforms, traj, callNo, first>>

\* Setup binding x to the caller's mag instead of a new zero array
Setup_ImageIsMag ==
    /\ pc = "setup"
    /\ IF Broadcastable(heap[args.mag].shape, heap[init_phi].shape)
       THEN /\ y_hat' = Polar(heap[args.mag], heap[init_phi])
            /\ x' = args.mag
            /\ x_p' = None
            /\ errors' = <<>>
            /\ pc' = "loop"
            /\ UNCHANGED <<heap, exc>>
       ELSE /\ Raise("ValueError")
            /\ UNCHANGED <<heap, y_hat, x, x_p, errors>>
    /\ UNCHANGED <<args, mask, init_phi, y, indices, x_hat, i,
                   ret, nTransforms, rngCalls, traj, callNo, first>>

\* lines 54-61: y_hat, the zero image, the empty lists
Setup ==
    /\ pc = "setup"
    /\ IF Broadcastable(heap[args.mag].shape, heap[init_phi].shape)
       THEN /\ y_hat' = Polar(heap[args.mag], heap[init_phi])
            /\ heap' = ("zeros" :> Full(heap[args.mag].shape, 0)) @@ heap
            /\ x' = "zeros"
            /\ x_p' = None
            /\ errors' = <<>>
            /\ pc' = "loop"
            /\ UNCHANGED exc
       ELSE /\ Raise("ValueError")
            /\ UNCHANGED <<heap, y_hat, x, x_p, errors>>
    /\ UNCHANGED <<args, mask, init_phi, y, indices, x_hat, i,
                   ret, nTransforms, rngCalls, traj, callNo, first>>

\* lines 64 and 70: the next iteration begins with the inverse transform
InverseTransform ==
    /\ pc = "loop"
    /\ i < args.steps
    /\ i' = i + 1
    /\ LET yc == ifft2(y_hat)
       IN  heap' = (NewY(i') :> Arr(yc.shape, [p \in Pix(yc.shape) |-> real(yc.data[p])]))
                       @@ heap
    /\ y' = NewY(i')
    /\ nTransforms' = nTransforms + 1
    /\ pc' = "track"
    /\ UNCHANGED <<args, mask, init_phi, y_hat, x, x_p, indices, x_hat, errors,
                   ret, exc, rngCalls, traj, callNo, first>>

\* TrackPrevious taking y in every iteration
TrackPrevious_AlwaysY ==
    /\ pc = "track"
    /\ x_p' = y
    /\ pc' = "adopt"
    /\ UNCHANGED <<heap, args, mask, init_phi, y_hat, x, y, indices, x_hat,
                   errors, i, ret, exc, nTransforms, rngCalls, traj, callNo, first>>

\* lines 73-76: the previous iterate
TrackPrevious ==
    /\ pc = "track"
    /\ x_p' = IF x_p = None THEN y ELSE x
    /\ pc' = "adopt"
    /\ UNCHANGED <<heap, args, mask, init_phi, y_hat, x, y, indices, x_hat,
                   errors, i, ret, exc, nTransforms, rngCalls, traj, callNo, first>>

\* AdoptEstimate with x = y in input-output too
AdoptEstimate_AllModes ==
    /\ pc = "adopt"
    /\ x' = y
    /\ pc' = "find"
    /\ UNCHANGED <<heap, args, mask, init_phi, y_hat, x_p, y, indices, x_hat,
                   errors, i, ret, exc, nTransforms, rngCalls, traj, callNo, first>>

\* lines 79-80: x = y in all modes but input-output
AdoptEstimate ==
    /\ pc = "adopt"
    /\ x' = IF args.mode \in {"output-output", "hybrid", "gs"} THEN y ELSE x
    /\ pc' = "find"
    /\ UNCHANGED <<heap, args, mask, init_phi, y_hat, x_p, y, indices, x_hat,
                   errors, i, ret, exc, nTransforms, rngCalls, traj, callNo, first>>

\* lines 84-85: the pixels that violate the object domain constraints
FindViolations ==
    /\ pc = "find"
    /\ indices' = Violations(heap[y], args.threshhold, heap[mask])
    /\ pc' = "sigerr"
    /\ UNCHANGED <<heap, args, mask, init_phi, y_hat, x, x_p, y, x_hat,
                   errors, i, ret, exc, nTransforms, rngCalls, traj, callNo, first>>

\* SignalError appending in mode gs too
SignalError_AllModes ==
    /\ pc = "sigerr"
    /\ errors' = Append(errors, SumSq(heap[x], indices))
    /\ pc' = "correct"
    /\ UNCHANGED <<heap, args, mask, init_phi, y_hat, x, x_p, y, indices, x_hat,
                   i, ret, exc, nTransforms, rngCalls, traj, callNo, first>>

\* SignalError summing over the previous iterate x_p
SignalError_Previous ==
    /\ pc = "sigerr"
    /\ errors' = IF args.mode # "gs"
                 THEN Append(errors, SumSq(heap[x_p], indices))
                 ELSE errors
    /\ pc' = "correct"
    /\ UNCHANGED <<heap, args, mask, init_phi, y_hat, x, x_p, y, indices, x_hat,
                   i, ret, exc, nTransforms, rngCalls, traj, callNo, first>>

\* lines 88-89: the signal domain error
SignalError ==
    /\ pc = "sigerr"
    /\ errors' = IF args.mode # "gs"
                 THEN Append(errors, SumSq(heap[x], indices))
                 ELSE errors
    /\ pc' = "correct"
    /\ UNCHANGED <<heap, args, mask, init_phi, y_hat, x, x_p, y, indices, x_hat,
                   i, ret, exc, nTransforms, rngCalls, traj, callNo, first>>

\* Correction with y + beta*y in output-output
Correction_SignSlip(p) ==
    CASE args.mode \in {"hybrid", "input-output"} ->
            heap[x_p].data[p] - args.beta * heap[y].data[p]
      [] args.mode = "output-output" ->
            heap[y].data[p] + args.beta * heap[y].data[p]
      [] OTHER -> 0

\* the right-hand sides of lines 96, 98 and 100, read before the write
Correction(p) ==
    CASE args.mode \in {"hybrid", "input-output"} ->
            heap[x_p].data[p] - args.beta * heap[y].data[p]
      [] args.mode = "output-output" ->
            heap[y].data[p] - args.beta * heap[y].data[p]
      [] OTHER -> 0

\* lines 95-100: the in-place update of the violating pixels
Correct ==
    /\ pc = "correct"
    /\ heap' = [heap EXCEPT ![x].data =
                    [p \in DOMAIN @ |-> IF indices[p] THEN Correction(p) ELSE @[p]]]
    /\ traj' = Append(traj, heap'[x].data)
    /\ pc' = "fft"
    /\ UNCHANGED <<args, mask, init_phi, y_hat, x, x_p, y, indices, x_hat,
                   errors, i, ret, exc, nTransforms, rngCalls, callNo, first>>

\* line 103: the forward transform
ForwardTransform ==
    /\ pc = "fft"
    /\ x_hat' = fft2(heap[x])
    /\ nTransforms' = nTransforms + 1
    /\ pc' = "magerr"
    /\ UNCHANGED <<heap, args, mask, init_phi, y_hat, x, x_p, y, indices,
                   errors, i, ret, exc, rngCalls, traj, callNo, first>>

\* lines 106-107: the magnitude error of gs
MagnitudeError ==
    /\ pc = "magerr"
    /\ errors' = IF args.mode = "gs"
                 THEN Append(errors, MagError(x_hat, heap[args.mag]))
                 ELSE errors
    /\ pc' = "project"
    /\ UNCHANGED <<heap, args, mask, init_phi, y_hat, x, x_p, y, indices, x_hat,
                   i, ret, exc, nTransforms, rngCalls, traj, callNo, first>>

\* line 111: the measured magnitude with the phase of x_hat
Project ==
    /\ pc = "project"
    /\ y_hat' = Polar(heap[args.mag],
                      Arr(x_hat.shape, [p \in Pix(x_hat.shape) |-> angle(x_hat.data[p])]))
    /\ pc' = "loop"
    /\ UNCHANGED <<heap, args, mask, init_phi, x, x_p, y, indices, x_hat,
                   errors, i, ret, exc, nTransforms, rngCalls, traj, callNo, first>>

\* lines 64 and 113: the loop is exhausted
Return ==
    /\ pc = "loop"
    /\ ~(i < args.steps)
    /\ ret' = <<x, errors>>
    /\ pc' = "returned"
    /\ UNCHANGED <<heap, args, mask, init_phi, y_hat, x, x_p, y, indices, x_hat,
                   errors, i, exc, nTransforms, rngCalls, traj, callNo, first>>

\* the caller: after a call with an explicit init_phi, a second call on the
\* same arrays, with the same arguments or, after output-output with beta = 1,
\* with mode gs to compare against
CallAgain ==
    /\ pc = "returned"
    /\ callNo = 1
    /\ args.init_phi # None
    /\ first' = [args |-> args, x |-> heap[ret[1]].data, errors |-> ret[2],
                 traj |-> traj]
    /\ \/ args' = args
       \/ /\ args.mode = "output-output"
          /\ args.beta = 1
          /\ args' = [args EXCEPT !.mode = "gs"]
    /\ callNo' = 2
    /\ heap' = [n \in CallerArrays |-> heap[n]]
    /\ pc' = "start"
    /\ mask' = None /\ init_phi' = None /\ x' = None /\ x_p' = None /\ y' = None
    /\ y_hat' = Unbound /\ indices' = Unbound /\ x_hat' = Unbound
    /\ errors' = <<>> /\ i' = 0
    /\ ret' = <<>> /\ exc' = None
    /\ nTransforms' = 0 /\ rngCalls' = 0 /\ traj' = <<>>

Next ==
    \/ CheckArgs
    \/ SamplePhase
    \/ Setup
    \/ InverseTransform
    \/ TrackPrevious
    \/ AdoptEstimate
    \/ FindViolations
    \/ SignalError
    \/ Correct
    \/ ForwardTransform
    \/ MagnitudeError
    \/ Project
    \/ Return
    \/ CallAgain

Spec == Init /\ [][Next]_vars

\* the division of the inverse transform is exact on the inputs of the model
ExactInverse ==
    y_hat # Unbound =>
        \A k \in Pix(y_hat.shape), part \in 1 .. 2 :
            DftSum(y_hat, k, part) % Size(y_hat.shape) = 0

TypeOK ==
    /\ pc \in {"start", "sample", "setup", "loop", "track", "adopt", "find",
               "sigerr", "correct", "fft", "magerr", "project", "returned", "raised"}
    /\ i \in 0 .. MaxSteps
    /\ x \in DOMAIN heap \cup {None}
    /\ x_p \in DOMAIN heap \cup {None}
    /\ y \in DOMAIN heap \cup {None}
    /\ callNo \in 1 .. 2
    /\ ExactInverse


(***************************************************************************)
(* Properties                                                              *)
(***************************************************************************)
InLoopBody ==
    pc \in {"track", "adopt", "find", "sigerr", "correct", "fft", "magerr", "project"}
AfterCorrect == pc \in {"fft", "magerr", "project"}
SignalModes == {"input-output", "output-output", "hybrid"}
Pixels == Pix(heap[args.mag].shape)

\* x as the previous iteration left it: the zero image before iteration 1
XBefore(p) == IF i = 1 THEN 0 ELSE traj[i - 1][p]

MaskMismatch ==
    args.mask # None /\ heap[args.mask].shape # heap[args.mag].shape
PhiMismatch ==
    args.init_phi # None /\ heap[args.init_phi].shape # heap[args.mag].shape
BadArguments ==
    \/ ~(args.beta > 0)
    \/ ~(args.steps > 0)
    \/ args.mode \notin Modes
    \/ MaskMismatch

\* C1: a call with beta <= 0, steps <= 0, an unknown mode or a mask of another
\* shape than mag ends with the assertion error before the loop: no transform
\* is computed, no error entry appended, nothing returned.
C1_FailFast ==
    BadArguments =>
        /\ pc \in {"start", "raised"}
        /\ pc = "raised" => exc = "AssertionError"
        /\ i = 0
        /\ nTransforms = 0
        /\ errors = <<>>
        /\ ret = <<>>

C1_Witness ==
    /\ pc = "raised"
    /\ args.beta > 0 /\ args.steps > 0 /\ args.mode \in Modes
    /\ MaskMismatch

\* C2: a call with an init_phi of another shape than mag fails before any
\* iteration begins and never enters the main loop.
C2_PhiShapeRejected ==
    PhiMismatch =>
        /\ pc \in {"start", "sample", "setup", "raised"}
        /\ i = 0
        /\ nTransforms = 0
        /\ ret = <<>>

\* an entry of the trace exists for iteration i once its append has run
Appended ==
    IF args.mode = "gs" THEN pc = "project" ELSE pc = "correct" \/ AfterCorrect

C3_Counts ==
    /\ pc \in {"loop", "returned"} => Len(errors) = i /\ nTransforms = 2 * i
    /\ InLoopBody =>
        /\ i \in 1 .. args.steps
        /\ Len(errors) = IF Appended THEN i ELSE i - 1
    /\ pc = "returned" => i = args.steps /\ ret[2] = errors /\ Len(ret[2]) = args.steps

C3_AppendOnly ==
    [][pc # "returned" =>
            /\ Len(errors') \in {Len(errors), Len(errors) + 1}
            /\ SubSeq(errors', 1, Len(errors)) = errors]_vars

\* C3: in every mode one entry is appended to the error trace per iteration:
\* after k completed iterations the trace has k entries, in iteration order,
\* the loop runs steps iterations and the returned trace has length steps.
C3_OneEntryPerIteration == []C3_Counts /\ C3_AppendOnly

C3_Witness ==
    /\ pc = "returned"
    /\ args.mode = "gs"
    /\ args.steps = MaxSteps
    /\ Len(ret[2]) = MaxSteps
    /\ nTransforms = 2 * MaxSteps

\* C4 as claimed: the entry of iteration i is the sum of squares of x over the
\* violating pixels after the correction of iteration i.
C4_ErrorAfterCorrection ==
    (pc = "fft" /\ args.mode \in SignalModes) =>
        errors[Len(errors)] = SumSq(heap[x], indices)

\* C4 amended: the entry of iteration i is the sum of squares over the violating
\* pixels of x before the correction of iteration i: of the inverse transform y
\* in output-output and hybrid, of x as iteration i-1 left it (zero in
\* iteration 1) in input-output.
C4_ErrorBeforeCorrection ==
    (pc = "correct" /\ args.mode \in SignalModes) =>
        /\ Len(errors) = i
        /\ errors[i] =
            IF args.mode = "input-output"
            THEN SumSq(Arr(heap[x].shape, [p \in Pixels |-> XBefore(p)]), indices)
            ELSE SumSq(heap[y], indices)

C4_Witness ==
    /\ pc = "correct"
    /\ args.mode = "hybrid"
    /\ i >= 2
    /\ errors[i] > 0
    /\ \E p \in Pixels :
        indices[p] /\ Correction(p) * Correction(p) # heap[y].data[p] * heap[y].data[p]

ComparesWithGS ==
    /\ callNo = 2
    /\ first.args.mode = "output-output"
    /\ first.args.beta = 1
    /\ args.mode = "gs"

\* C5: on the same mag, init_phi, mask, threshhold and steps, output-output
\* with beta = 1 and gs have the same x at the end of every iteration and
\* return the same x.
C5_GerchbergSaxton ==
    ComparesWithGS =>
        /\ \A k \in 1 .. Len(traj) : traj[k] = first.traj[k]
        /\ pc = "returned" => heap[ret[1]].data = first.x

C5_Witness ==
    /\ ComparesWithGS
    /\ pc = "returned"
    /\ args.steps >= 2
    /\ Len(first.traj) = args.steps
    /\ \E p, q \in Pixels : first.x[p] # 0 /\ indices[q]

C6_WritesLandInside == pc = "correct" => x \notin CallerArrays

C6_InputsKept ==
    [][heap'["mag"] = heap["mag"] /\ heap'["mask"] = heap["mask"]]_vars

\* C6: mag and mask of the caller are never modified; every in-place write goes
\* to an array created inside the call, whatever x, x_p and y share.
C6_InputsImmutable == []C6_WritesLandInside /\ C6_InputsKept

C6_Witness ==
    /\ pc = "fft"
    /\ args.mode = "input-output"
    /\ args.mask # None
    /\ i >= 2
    /\ x_p = x
    /\ \E p \in Pixels : indices[p] /\ heap[x].data[p] # XBefore(p)

\* C7: with init_phi passed the random source is not consulted, and two calls
\* with the same arguments return the same x and the same error trace.
C7_Deterministic ==
    args.init_phi # None =>
        /\ rngCalls = 0
        /\ (callNo = 2 /\ args = first.args /\ pc = "returned") =>
                heap[ret[1]].data = first.x /\ ret[2] = first.errors

C7_Witness ==
    /\ callNo = 2
    /\ args = first.args
    /\ args.init_phi # None
    /\ pc = "returned"
    /\ args.steps >= 2
    /\ \E p \in Pixels : first.x[p] # 0

\* C8: in input-output a pixel outside the violation set of iteration i keeps
\* the value x had at the end of iteration i-1 (zero in iteration 1); it does
\* not take the inverse transform y.
C8_SatisfyingPixelsKept ==
    (InLoopBody /\ args.mode = "input-output") =>
        \A p \in Pixels :
            (~AfterCorrect \/ ~indices[p]) => heap[x].data[p] = XBefore(p)

C8_Witness ==
    /\ pc = "fft"
    /\ args.mode = "input-output"
    /\ i >= 2
    /\ \E p \in Pixels :
        /\ ~indices[p]
        /\ heap[x].data[p] = traj[i - 1][p]
        /\ heap[x].data[p] # heap[y].data[p]

\* C9: in hybrid and input-output every violating pixel p gets
\* x[p] = x_prev[p] - beta*y[p], x_prev being y in iteration 1 and x of the end
\* of iteration i-1 afterwards, whatever x_p, x and y share.
C9_CorrectionUsesPrevious ==
    [][(pc = "correct" /\ args.mode \in {"hybrid", "input-output"}) =>
            \A p \in Pixels :
                indices[p] =>
                    heap'[x'].data[p] =
                        (IF i = 1 THEN heap[y].data[p] ELSE traj[i - 1][p])
                            - args.beta * heap[y].data[p]]_vars

C9_Witness ==
    /\ pc = "fft"
    /\ args.mode = "input-output"
    /\ i >= 2
    /\ x_p = x
    /\ \E p \in Pixels :
        /\ indices[p]
        /\ traj[i - 1][p] # 0
        /\ traj[i][p] # traj[i - 1][p]

C10_ZeroOutsideMask ==
    (args.mode = "gs" /\ (AfterCorrect \/ (pc \in {"loop", "returned"} /\ i >= 1))) =>
        \A p \in Pixels : heap[mask].data[p] = 0 => heap[x].data[p] = 0

C10_InsideMask ==
    [][(pc = "correct" /\ args.mode = "gs") =>
            \A p \in Pixels :
                heap[mask].data[p] # 0 =>
                    \/ heap[y].data[p] < args.threshhold /\ heap'[x'].data[p] = 0
                    \/ /\ heap[y].data[p] >= args.threshhold
                       /\ heap'[x'].data[p] = heap[y].data[p]]_vars

\* C10: in gs, at the end of every iteration and on return, x is 0 outside the
\* mask, and inside the mask it is 0 where y was below the threshhold and y,
\* with y >= threshhold, elsewhere.
C10_SupportInGS == []C10_ZeroOutsideMask /\ C10_InsideMask

C10_Witness ==
    /\ pc = "returned"
    /\ args.mode = "gs"
    /\ args.steps >= 2
    /\ \E p, q \in Pixels :
        /\ heap[mask].data[p] = 0
        /\ heap[mask].data[q] # 0
        /\ heap[ret[1]].data[q] # 0

====
